---- MODULE Spec2Model ----
(***************************************************************************)
(* Model of DevSyncAI: the sliding-window rate limiter                     *)
(* (src/utils/rate_limiter.py, class RateLimiter) called by concurrent     *)
(* threads, and its users on the event loop: the admission dependency and  *)
(* the webhook handler of src/main.py and the generative-API client of     *)
(* src/services/ai_service.py.  Time is the integer wall clock `clock`; a  *)
(* thread reads it where the code calls time.time().                       *)
(***************************************************************************)
EXTENDS Integers, Sequences, FiniteSets, TLC

\* ---- bounds of the model ------------------------------------------------
NumThreads == 2
MaxTime == 2
MaxCallsArg == 2
MaxPeriodArg == 2
MaxIssued == 3

Threads == 1..NumThreads
Keys == {"a", "b"}
Times == 0..MaxTime
\* the arguments of the constructor, the invalid 0 and -1 included
CallsArgs == (0 - 1)..MaxCallsArg
PeriodArgs == (0 - 1)..MaxPeriodArg

NoThread == 0
NoTime == 0 - 1
NoKey == "-"
\* Optional[float]: None is the empty tuple, a value v is <<v>>
None == <<>>
Some(v) == <<v>>

VARIABLES
    calls,      \* self.calls
    period,     \* self.period
    error,      \* exception raised by __init__ ("none" when constructed)
    storage,    \* self.storage: defaultdict(list), key -> list of timestamps
    lock,       \* self.lock: NoThread when free, else the holder
    clock,      \* value time.time() returns now
    th,         \* per thread: position, operation, key and the local `now`
    last,       \* the operation that returned last: its key, its `now`,
                \* the storage it found (pre) and its result
    admitted,   \* history: per key and call time, number of admitted calls
    issued,     \* history: per key, number of is_allowed calls started
    web,        \* main.rate_limit_dependency: its position in the request it
                \* serves, the reset time it read, the response it gave
    ai,         \* AIService._make_ai_request: the times of the outbound
                \* posts and the outcome of the last request
    hook        \* main.github_webhook: the request it serves, what it did
                \* for it (in order) and the status it answered

hist == <<admitted, issued>>
apps == <<web, ai, hook>>
vars == <<calls, period, error, storage, lock, clock, th, last, admitted,
          issued, web, ai, hook>>

\* no request in the dependency, no response given yet
NoResp == [status |-> 0, reset_in |-> None, remaining |-> None]
WebIdle == [pc |-> "idle", key |-> NoKey, reset |-> None, resp |-> NoResp]

\* no request made to the generative API yet
AIIdle == [posts |-> <<>>, caller |-> "none", content |-> 0, asked |-> FALSE,
           admitted |-> FALSE, posted |-> FALSE, raised |-> "none",
           status |-> 0]

\* no webhook received yet
NoReq == [sig |-> "missing", json |-> FALSE, event |-> "none",
          ref_type |-> "none", text |-> <<>>, action |-> "none",
          merged |-> FALSE]
HookIdle == [pc |-> "idle", key |-> NoKey, req |-> NoReq, admitted |-> FALSE,
             trace |-> <<>>, status |-> 0]

Idle == [pc |-> "idle", op |-> "none", key |-> NoKey, now |-> NoTime]
NoOp == [op |-> "none", key |-> NoKey, now |-> NoTime, pre |-> <<>>,
         result |-> None]

\* ---- helpers ------------------------------------------------------------
Max(a, b) == IF a >= b THEN a ELSE b
Min(a, b) == IF a <= b THEN a ELSE b

\* min(list) of a non-empty list
RECURSIVE SeqMin(_)
SeqMin(s) ==
    IF Len(s) = 1 THEN s[1] ELSE Min(s[1], SeqMin(Tail(s)))

\* self.storage[key] of a defaultdict(list): a missing key reads as []
Lookup(s, k) == IF k \in DOMAIN s THEN s[k] ELSE <<>>

\* self.storage[key] = value (creates the entry when missing)
Store(s, k, v) == [x \in (DOMAIN s) \cup {k} |-> IF x = k THEN v ELSE s[x]]

\* (variant: the cutoff itself survives, ts >= cutoff)
SurvivorsClosed(seq, now) == SelectSeq(seq, LAMBDA ts : ts >= now - period)

\* the list comprehension of _clean_old_records
Survivors(seq, now) == SelectSeq(seq, LAMBDA ts : ts > now - period)

\* (variant: every key's list is cleaned, not only key's)
CleanAllRecords(s, k, now) ==
    [x \in (DOMAIN s) \cup {k} |-> Survivors(Lookup(s, x), now)]

\* _clean_old_records(key, now)
CleanOldRecords(s, k, now) == Store(s, k, Survivors(Lookup(s, k), now))

\* ---- construction -------------------------------------------------------
\* (variant: only negative arguments are refused, c < 0 and p < 0)
InitErrorAcceptsZero(c, p) == IF c < 0 \/ p < 0 THEN "ValueError" ELSE "none"

\* RateLimiter.__init__(calls, period)
InitError(c, p) == IF c < 1 \/ p < 1 THEN "ValueError" ELSE "none"

Init ==
    /\ calls \in CallsArgs
    /\ period \in PeriodArgs
    /\ error = InitError(calls, period)
    /\ storage = <<>>
    /\ lock = NoThread
    /\ clock = 0
    /\ th = [t \in Threads |-> Idle]
    /\ last = NoOp
    /\ admitted = [k \in Keys |-> [u \in Times |-> 0]]
    /\ issued = [k \in Keys |-> 0]
    /\ web = WebIdle
    /\ ai = AIIdle
    /\ hook = HookIdle

\* ---- the clock ----------------------------------------------------------
Tick ==
    /\ clock < MaxTime
    /\ clock' = clock + 1
    /\ UNCHANGED <<calls, period, error, storage, lock, th>>

\* ---- is_allowed ---------------------------------------------------------
\* now = time.time(), read before the lock is taken
CallIsAllowed(t, k) ==
    /\ error = "none"
    /\ th[t].pc = "idle"
    /\ th' = [th EXCEPT ![t] = [pc |-> "acquire", op |-> "is_allowed",
                                key |-> k, now |-> clock]]
    /\ UNCHANGED <<calls, period, error, storage, lock, clock>>

\* history of a started is_allowed call (at most MaxIssued per key)
HistCallIsAllowed(k) ==
    /\ issued[k] < MaxIssued
    /\ issued' = [issued EXCEPT ![k] = @ + 1]
    /\ UNCHANGED admitted

\* with self.lock: (entry)
\* (variant: the early return of get_reset_time keeps the lock)
LockKeptOnEarlyReturn(t) ==
    IF th[t].op = "get_reset_time" /\ Lookup(storage, th[t].key) = <<>>
    THEN t
    ELSE NoThread

\* leaving `with self.lock:` releases the lock, on a return from inside the
\* block as at its end
LockAfter(t) == NoThread

Acquire(t) ==
    /\ th[t].pc = "acquire"
    /\ lock = NoThread
    /\ lock' = t
    /\ th' = [th EXCEPT ![t].pc = "locked"]
    /\ UNCHANGED <<calls, period, error, storage, clock>>

\* (variant: the quota is never tested)
HasQuotaAlways(current_calls) == TRUE

\* (variant: current_calls <= self.calls)
HasQuotaOffByOne(current_calls) == current_calls <= calls

\* the admission test, current_calls < self.calls
HasQuota(current_calls) == current_calls < calls

\* (variant: current_calls is taken before the old records are cleaned)
IsAllowedCountsBeforeCleaning(s, k, now) ==
    LET cleaned == CleanOldRecords(s, k, now)
    IN  IF HasQuota(Len(Lookup(s, k)))
        THEN [storage |-> Store(cleaned, k, Append(cleaned[k], now)),
              result |-> TRUE]
        ELSE [storage |-> cleaned, result |-> FALSE]

\* (variant: the timestamp is appended before the admission test)
IsAllowedRecordsDenied(s, k, now) ==
    LET cleaned == CleanOldRecords(s, k, now)
    IN  [storage |-> Store(cleaned, k, Append(cleaned[k], now)),
         result |-> HasQuota(Len(cleaned[k]))]

\* the body of is_allowed under the lock: the storage it leaves and the
\* value it returns
IsAllowed(s, k, now) ==
    LET cleaned == CleanOldRecords(s, k, now)
        current_calls == Len(cleaned[k])
    IN  IF HasQuota(current_calls)
        THEN [storage |-> Store(cleaned, k, Append(cleaned[k], now)),
              result |-> TRUE]
        ELSE [storage |-> cleaned, result |-> FALSE]

IsAllowedStorage(s, k, now) == IsAllowed(s, k, now).storage

IsAllowedResult(s, k, now) == IsAllowed(s, k, now).result

IsAllowedBody(t) ==
    /\ th[t].pc = "locked"
    /\ th[t].op = "is_allowed"
    /\ storage' = IsAllowedStorage(storage, th[t].key, th[t].now)
    /\ lock' = LockAfter(t)
    /\ th' = [th EXCEPT ![t] = Idle]
    /\ UNCHANGED <<calls, period, error, clock>>

\* history of a returning is_allowed call
HistIsAllowedBody(t) ==
    LET k == th[t].key
        now == th[t].now
    IN  /\ admitted' = IF IsAllowedResult(storage, k, now)
                       THEN [admitted EXCEPT ![k][now] = @ + 1]
                       ELSE admitted
        /\ UNCHANGED issued

\* ---- get_remaining_calls ------------------------------------------------
CallGetRemainingCalls(t, k) ==
    /\ error = "none"
    /\ th[t].pc = "idle"
    /\ th' = [th EXCEPT ![t] = [pc |-> "acquire",
                                op |-> "get_remaining_calls",
                                key |-> k, now |-> clock]]
    /\ UNCHANGED <<calls, period, error, storage, lock, clock>>

\* (variant: the number of calls used is returned, not the number left)
GetRemainingCallsUsed(s, k, now) ==
    LET cleaned == CleanOldRecords(s, k, now)
    IN  [storage |-> cleaned, result |-> Len(cleaned[k])]

\* (variant: the query records itself as a call)
GetRemainingCallsRecords(s, k, now) ==
    LET cleaned == CleanOldRecords(s, k, now)
    IN  [storage |-> Store(cleaned, k, Append(cleaned[k], now)),
         result |-> Max(0, calls - Len(cleaned[k]))]

\* (variant: the calls are counted before the old records are cleaned)
GetRemainingCallsCountsStale(s, k, now) ==
    [storage |-> CleanOldRecords(s, k, now),
     result |-> Max(0, calls - Len(Lookup(s, k)))]

\* the body of get_remaining_calls under the lock
GetRemainingCalls(s, k, now) ==
    LET cleaned == CleanOldRecords(s, k, now)
    IN  [storage |-> cleaned, result |-> Max(0, calls - Len(cleaned[k]))]

GetRemainingCallsStorage(s, k, now) == GetRemainingCalls(s, k, now).storage

GetRemainingCallsResult(s, k, now) == GetRemainingCalls(s, k, now).result

GetRemainingCallsBody(t) ==
    /\ th[t].pc = "locked"
    /\ th[t].op = "get_remaining_calls"
    /\ storage' = GetRemainingCallsStorage(storage, th[t].key, th[t].now)
    /\ lock' = LockAfter(t)
    /\ th' = [th EXCEPT ![t] = Idle]
    /\ UNCHANGED <<calls, period, error, clock>>

\* ---- get_reset_time -----------------------------------------------------
CallGetResetTime(t, k) ==
    /\ error = "none"
    /\ th[t].pc = "idle"
    /\ th' = [th EXCEPT ![t] = [pc |-> "acquire", op |-> "get_reset_time",
                                key |-> k, now |-> NoTime]]
    /\ UNCHANGED <<calls, period, error, storage, lock, clock>>

\* (variant: the entry of a key without timestamps is deleted)
GetResetTimeEvictsEmpty(s, k) ==
    IF Lookup(s, k) = <<>>
    THEN [x \in (DOMAIN s) \ {k} |-> s[x]]
    ELSE s

\* reading self.storage[key] creates the entry; nothing is pruned
GetResetTimeStorage(s, k) == Store(s, k, Lookup(s, k))

\* (variant: the newest timestamp is used instead of the oldest)
GetResetTimeNewest(s, k, now) ==
    IF Lookup(s, k) = <<>>
    THEN None
    ELSE LET seq == Lookup(s, k)
             newest == CHOOSE v \in {seq[i] : i \in DOMAIN seq} :
                           \A i \in DOMAIN seq : seq[i] <= v
         IN  Some(Max(0, newest + period - now))

\* (variant: the expired timestamps are dropped before the emptiness test)
GetResetTimePrunesFirst(s, k, now) ==
    LET live == Survivors(Lookup(s, k), now)
    IN  IF live = <<>>
        THEN None
        ELSE Some(Max(0, SeqMin(live) + period - now))

\* (variant: the oldest timestamp of the whole storage is used)
GetResetTimeAnyKey(s, k, now) ==
    LET all == {x \in DOMAIN s : s[x] # <<>>}
    IN  IF all = {}
        THEN None
        ELSE LET x == CHOOSE y \in all :
                          \A z \in all : SeqMin(s[y]) <= SeqMin(s[z])
             IN  Some(Max(0, SeqMin(s[x]) + period - now))

\* time.time() is read under the lock, after the emptiness test
GetResetTimeResult(s, k, now) ==
    IF Lookup(s, k) = <<>>
    THEN None
    ELSE Some(Max(0, SeqMin(Lookup(s, k)) + period - now))

GetResetTimeBody(t) ==
    /\ th[t].pc = "locked"
    /\ th[t].op = "get_reset_time"
    /\ storage' = GetResetTimeStorage(storage, th[t].key)
    /\ lock' = LockAfter(t)
    /\ th' = [th EXCEPT ![t] = Idle]
    /\ UNCHANGED <<calls, period, error, clock>>

\* ---- specifications -----------------------------------------------------
\* ---- the operation that returned last ------------------------------------
\* what the thread leaving the lock hands back: the operation, its key, the
\* time it worked with, the storage it found and its result
Returned(t) ==
    LET k == th[t].key
        now == IF th[t].op = "get_reset_time" THEN clock ELSE th[t].now
    IN  [op |-> th[t].op, key |-> k, now |-> now, pre |-> storage,
         result |->
            CASE th[t].op = "is_allowed" ->
                    IsAllowedResult(storage, k, now)
              [] th[t].op = "get_remaining_calls" ->
                    GetRemainingCallsResult(storage, k, now)
              [] OTHER -> GetResetTimeResult(storage, k, now)]

RecordReturn(t) == last' = Returned(t)

\* the limiter and the last returned operation; the history is not recorded
Next ==
    \/ Tick /\ UNCHANGED <<last, hist, apps>>
    \/ \E t \in Threads, k \in Keys :
            CallIsAllowed(t, k) /\ UNCHANGED <<last, hist, apps>>
    \/ \E t \in Threads, k \in Keys :
            CallGetRemainingCalls(t, k) /\ UNCHANGED <<last, hist, apps>>
    \/ \E t \in Threads, k \in Keys :
            CallGetResetTime(t, k) /\ UNCHANGED <<last, hist, apps>>
    \/ \E t \in Threads : Acquire(t) /\ UNCHANGED <<last, hist, apps>>
    \/ \E t \in Threads :
            IsAllowedBody(t) /\ RecordReturn(t) /\ UNCHANGED <<hist, apps>>
    \/ \E t \in Threads :
            /\ GetRemainingCallsBody(t)
            /\ RecordReturn(t)
            /\ UNCHANGED <<hist, apps>>
    \/ \E t \in Threads :
            GetResetTimeBody(t) /\ RecordReturn(t) /\ UNCHANGED <<hist, apps>>

Spec == Init /\ [][Next]_vars

\* the same limiter with the history of is_allowed calls recorded
NextHist ==
    \/ Tick /\ UNCHANGED <<last, hist, apps>>
    \/ \E t \in Threads, k \in Keys :
            /\ CallIsAllowed(t, k)
            /\ HistCallIsAllowed(k)
            /\ UNCHANGED <<last, apps>>
    \/ \E t \in Threads, k \in Keys :
            CallGetRemainingCalls(t, k) /\ UNCHANGED <<last, hist, apps>>
    \/ \E t \in Threads, k \in Keys :
            CallGetResetTime(t, k) /\ UNCHANGED <<last, hist, apps>>
    \/ \E t \in Threads : Acquire(t) /\ UNCHANGED <<last, hist, apps>>
    \/ \E t \in Threads :
            /\ IsAllowedBody(t)
            /\ RecordReturn(t)
            /\ HistIsAllowedBody(t)
            /\ UNCHANGED apps
    \/ \E t \in Threads :
            /\ GetRemainingCallsBody(t)
            /\ RecordReturn(t)
            /\ UNCHANGED <<hist, apps>>
    \/ \E t \in Threads :
            GetResetTimeBody(t) /\ RecordReturn(t) /\ UNCHANGED <<hist, apps>>

SpecHist == Init /\ [][NextHist]_vars

\* ---- the limiter under fair scheduling -----------------------------------
\* a thread blocked in `with self.lock:` gets the lock
Enters(t) == Acquire(t) /\ UNCHANGED <<last, hist, apps>>

\* a thread inside the block runs the body to its return
Returns(t) ==
    /\ IsAllowedBody(t) \/ GetRemainingCallsBody(t) \/ GetResetTimeBody(t)
    /\ UNCHANGED <<last, hist, apps>>

\* the limiter alone: nothing is recorded of the operations that returned
NextFair ==
    \/ Tick /\ UNCHANGED <<last, hist, apps>>
    \/ \E t \in Threads, k \in Keys :
            CallIsAllowed(t, k) /\ UNCHANGED <<last, hist, apps>>
    \/ \E t \in Threads, k \in Keys :
            CallGetRemainingCalls(t, k) /\ UNCHANGED <<last, hist, apps>>
    \/ \E t \in Threads, k \in Keys :
            CallGetResetTime(t, k) /\ UNCHANGED <<last, hist, apps>>
    \/ \E t \in Threads : Enters(t)
    \/ \E t \in Threads : Returns(t)

\* every thread keeps running, and a thread that finds the lock free again
\* and again gets it in the end
Fairness ==
    \A t \in Threads : SF_vars(Enters(t)) /\ WF_vars(Returns(t))

SpecFair == Init /\ [][NextFair]_vars /\ Fairness

\* ---- main.rate_limit_dependency ------------------------------------------
\* The limiter is main.rate_limiter, keyed by the client address.  The
\* dependency is a coroutine without an await: the event loop runs it to its
\* end before it serves another request, and only the clock moves between
\* its three calls of the limiter.

\* f"{reset_time:.1f}s": a number is written in tenths of a second, None has
\* no such format and raises TypeError
FormatSeconds(r) ==
    IF r = None
    THEN [ok |-> FALSE, tenths |-> 0]
    ELSE [ok |-> TRUE, tenths |-> 10 * r[1]]

\* rate_limiter.is_allowed(client_ip): admitted, the request goes on to the
\* handler; denied, the 429 is built
WebRequest(k) ==
    /\ error = "none"
    /\ web.pc = "idle"
    /\ LET r == IsAllowed(storage, k, clock)
       IN  /\ storage' = r.storage
           /\ web' = IF r.result
                     THEN [pc |-> "idle", key |-> k, reset |-> None,
                           resp |-> [NoResp EXCEPT !.status = 200]]
                     ELSE [pc |-> "reset", key |-> k, reset |-> None,
                           resp |-> NoResp]
    /\ UNCHANGED <<calls, period, error, lock, clock, th>>

\* "reset_in": f"{rate_limiter.get_reset_time(client_ip):.1f}s"
WebGetResetTime ==
    /\ web.pc = "reset"
    /\ LET f == FormatSeconds(GetResetTimeResult(storage, web.key, clock))
       IN  web' = IF f.ok
                  THEN [web EXCEPT !.pc = "remaining",
                                   !.reset = Some(f.tenths)]
                  ELSE [web EXCEPT !.pc = "idle",
                                   !.resp = [NoResp EXCEPT !.status = 500]]
    /\ storage' = GetResetTimeStorage(storage, web.key)
    /\ UNCHANGED <<calls, period, error, lock, clock, th>>

\* "remaining_calls": rate_limiter.get_remaining_calls(client_ip), and the
\* HTTPException(429) is raised
WebGetRemainingCalls ==
    /\ web.pc = "remaining"
    /\ web' = [web EXCEPT
                 !.pc = "idle",
                 !.reset = None,
                 !.resp = [status |-> 429,
                           reset_in |-> web.reset,
                           remaining |->
                               Some(GetRemainingCallsResult(storage, web.key,
                                                            clock))]]
    /\ storage' = GetRemainingCallsStorage(storage, web.key, clock)
    /\ UNCHANGED <<calls, period, error, lock, clock, th>>

NextWeb ==
    \/ Tick /\ UNCHANGED <<last, hist, apps>>
    \/ \E k \in Keys : WebRequest(k) /\ UNCHANGED <<last, hist, ai, hook>>
    \/ WebGetResetTime /\ UNCHANGED <<last, hist, ai, hook>>
    \/ WebGetRemainingCalls /\ UNCHANGED <<last, hist, ai, hook>>

SpecWeb == Init /\ [][NextWeb]_vars

\* ---- services.ai_service.AIService ---------------------------------------
\* The limiter is AIService.rate_limiter and ai_service is the one instance
\* main creates; its key is the constant "ai_service".  _make_ai_request is
\* a coroutine without an await (requests.post blocks): the event loop runs
\* one request at a time.
AIKey == "ai_service"

\* what the generative API does with a request that reached it
AIOutcomes == {"text", "empty", "Timeout", "RequestException", "Exception"}

\* (variant: the request is posted whatever the limiter answered)
PostsAlways(allowed) == TRUE

\* requests.post is reached only past the raise of the denial
Posts(allowed) == allowed

\* what the try block ends with: the denial's HTTPException(429), the
\* exception of the post, or a return
RaisedInTry(allowed, outcome) ==
    IF ~allowed
    THEN "HTTPException"
    ELSE IF outcome \in {"text", "empty"} THEN "none" ELSE outcome

\* the except clauses in their order: Timeout -> 504, RequestException ->
\* 502, every other Exception (HTTPException is one) -> 500
StatusLeaving(raised) ==
    CASE raised = "none" -> 200
      [] raised = "Timeout" -> 504
      [] raised = "RequestException" -> 502
      [] OTHER -> 500

\* await self._make_ai_request(prompt, max_tokens), for a caller whose
\* content has n characters
MakeAIRequest(caller, n, outcome) ==
    /\ error = "none"
    /\ LET r == IsAllowed(storage, AIKey, clock)
           raised == RaisedInTry(r.result, outcome)
       IN  /\ storage' = r.storage
           /\ ai' = [posts |-> IF Posts(r.result)
                               THEN Append(ai.posts, clock)
                               ELSE ai.posts,
                     caller |-> caller,
                     content |-> n,
                     asked |-> TRUE,
                     admitted |-> r.result,
                     posted |-> Posts(r.result),
                     raised |-> IF raised = "none" THEN "none"
                                                   ELSE "HTTPException",
                     status |-> StatusLeaving(raised)]
    /\ UNCHANGED <<calls, period, error, lock, clock, th>>

\* generate_pr_feedback: the texts are cut to their maximal lengths and the
\* request is made
GeneratePrFeedback(outcome) ==
    MakeAIRequest("generate_pr_feedback", 0, outcome)

\* AIService.MAX_DIFF_LENGTH, and the lengths of content around it
MAX_DIFF_LENGTH == 8000
ContentLengths ==
    {0, MAX_DIFF_LENGTH - 1, MAX_DIFF_LENGTH, MAX_DIFF_LENGTH + 1}

\* (variant: content of exactly the maximal length is refused too)
ContentTooLargeAtLimit(n) == n >= MAX_DIFF_LENGTH

\* len(content) > self.MAX_DIFF_LENGTH
ContentTooLarge(n) == n > MAX_DIFF_LENGTH

\* generate_document: content above MAX_DIFF_LENGTH raises
\* ContentTooLargeError before the limiter is asked
GenerateDocument(n, outcome) ==
    IF ContentTooLarge(n)
    THEN /\ error = "none"
         /\ ai' = [ai EXCEPT !.caller = "generate_document",
                             !.content = n,
                             !.asked = FALSE,
                             !.admitted = FALSE,
                             !.posted = FALSE,
                             !.raised = "ContentTooLargeError",
                             !.status = 0]
         /\ UNCHANGED <<calls, period, error, storage, lock, clock, th>>
    ELSE MakeAIRequest("generate_document", n, outcome)

NextAI ==
    \/ Tick /\ UNCHANGED <<last, hist, apps>>
    \/ \E outcome \in AIOutcomes :
            GeneratePrFeedback(outcome) /\ UNCHANGED <<last, hist, web, hook>>
    \/ \E n \in ContentLengths, outcome \in AIOutcomes :
            GenerateDocument(n, outcome) /\ UNCHANGED <<last, hist, web, hook>>

SpecAI == Init /\ [][NextAI]_vars

\* ---- main.github_webhook --------------------------------------------------
\* The limiter is main.rate_limiter, keyed by the client address.  The
\* handler suspends once, at `await request.body()`; every call it makes
\* after that blocks the event loop, so its body runs as one step.

\* A text is a sequence of character classes: "A" an upper-case letter,
\* "0" a digit, "-" the hyphen, "x" any other character.
Texts ==
    {<<>>,
     <<"x", "x">>,
     <<"A", "-", "0">>,
     <<"x", "A", "A", "-", "0", "0", "x", "A", "-", "0">>,
     <<"A", "-", "x", "0">>,
     <<"0", "-", "A", "x">>}

\* the last index of the run of character c that starts at index i
RECURSIVE RunEnd(_, _, _)
RunEnd(text, i, c) ==
    IF i < Len(text) /\ text[i + 1] = c THEN RunEnd(text, i + 1, c) ELSE i

\* [A-Z]+-\d+ matches from index i
MatchAt(text, i) ==
    /\ text[i] = "A"
    /\ LET m == RunEnd(text, i, "A")
       IN  /\ m + 2 <= Len(text)
           /\ text[m + 1] = "-"
           /\ text[m + 2] = "0"

\* extract_jira_id: re.search(r'[A-Z]+-\d+', text), the leftmost match
ExtractJiraId(text) ==
    LET starts == {i \in DOMAIN text : MatchAt(text, i)}
    IN  IF starts = {}
        THEN None
        ELSE LET i == CHOOSE j \in starts : \A l \in starts : j <= l
                 m == RunEnd(text, i, "A")
             IN  Some(SubSeq(text, i, RunEnd(text, m + 2, "0")))

\* a webhook: the signature header, whether the body is JSON, the event
\* header, and of the payload ref_type, the text that may name the issue
\* (ref of a create event, title of a pull request), action and merged;
\* a field the event does not have is "none"
Payloads ==
    [event : {"create"}, ref_type : {"branch", "tag"}, text : Texts,
     action : {"none"}, merged : {FALSE}]
    \cup [event : {"pull_request"}, ref_type : {"none"}, text : Texts,
          action : {"opened", "closed", "edited"}, merged : BOOLEAN]
    \cup [event : {"push"}, ref_type : {"none"}, text : {<<>>},
          action : {"none"}, merged : {FALSE}]

Signed(sig, json, p) ==
    [sig |-> sig, json |-> json, event |-> p.event, ref_type |-> p.ref_type,
     text |-> p.text, action |-> p.action, merged |-> p.merged]

\* every payload validly signed; a signed body that is no JSON, under each
\* event header; and the payloads that name an issue by "A-0" with the
\* signature missing or wrong
Requests ==
    {Signed("valid", TRUE, p) : p \in Payloads}
    \cup {Signed("valid", FALSE, p) :
              p \in {q \in Payloads : q.text = <<>> /\ ~q.merged
                                        /\ q.ref_type # "tag"
                                        /\ q.action \in {"none", "opened"}}}
    \cup {Signed(sig, TRUE, p) :
              sig \in {"missing", "invalid"},
              p \in {q \in Payloads : q.text \in {<<>>, <<"A", "-", "0">>}}}

\* (variant: a request without the signature header is let through)
VerifyMissingAccepted(sig) == sig # "invalid"

\* verify_github_signature: a missing header and a digest that does not
\* compare equal are both refused
VerifyGithubSignature(sig) == sig = "valid"

\* (variant: the limiter is asked for signed requests only)
LimitedWhenSigned(req) == req.sig = "valid"

\* dependencies=[Depends(rate_limit_dependency)]: the dependency runs for
\* every request of the route, before the handler
Limited(req) == TRUE

\* (variant: a closed pull request counts as merged)
IsMergedWhenClosed(req) == req.action = "closed"

\* action == "closed" and pr.get("merged")
IsMerged(req) == req.action = "closed" /\ req.merged

\* one call of a service: the function, its argument and which of the
\* generations of the webhook it is (0: none)
Call(fn, arg, gen) == [fn |-> fn, arg |-> arg, gen |-> gen]

\* the awaited calls of the try block, in the order of the code
Plan(req) ==
    LET jira_id == ExtractJiraId(req.text)
    IN  IF req.event = "create" /\ req.ref_type = "branch"
        THEN IF jira_id # None
             THEN <<Call("update_issue_status", "In Progress", 0)>>
             ELSE <<>>
        ELSE IF req.event = "pull_request" /\ jira_id # None
        THEN IF req.action = "opened"
             THEN <<Call("update_issue_status", "In Review", 0),
                    Call("generate_pr_feedback", "", 1),
                    Call("create_pr_comment", "", 0)>>
             ELSE IF IsMerged(req)
             THEN <<Call("update_issue_status", "Completed", 0),
                    Call("get_pr_diff", "", 0),
                    Call("generate_document", "technical", 1),
                    Call("generate_document", "non-technical", 2),
                    Call("create_pr_comment", "", 0)>>
             ELSE <<>>
        ELSE <<>>

\* what the services answer: Jira and GitHub accept or fail with a
\* RequestException, a generation gives text, is denied by the AI limiter
\* or fails
Outcomes ==
    [jira : {"ok", "fail"},
     github : {"ok", "fail"},
     gen : [1..2 -> {"text", "denied", "fail"}]]

\* `async def` functions; the other services are plain functions, whose
\* result (a dict) cannot be awaited
IsCoroutineFunction(fn) ==
    fn \in {"get_pr_diff", "generate_pr_feedback", "generate_document"}

\* what one call does outside the program, and whether the service
\* accepted it
Effect(c, out) ==
    CASE c.fn = "update_issue_status" ->
            [op |-> "jira_post", arg |-> c.arg, ok |-> out.jira = "ok"]
      [] c.fn = "get_pr_diff" ->
            [op |-> "github_get", arg |-> "diff", ok |-> out.github = "ok"]
      [] c.fn = "create_pr_comment" ->
            [op |-> "github_comment", arg |-> "", ok |-> out.github = "ok"]
      [] OTHER ->
            [op |-> "ai", arg |-> c.fn, ok |-> out.gen[c.gen] = "text"]

\* the call raises: the service failed, or its result is not awaitable
\* (TypeError)
Raises(c, out) ==
    \/ c.fn = "update_issue_status" /\ out.jira = "fail"
    \/ c.fn \in {"get_pr_diff", "create_pr_comment"} /\ out.github = "fail"
    \/ c.fn \in {"generate_pr_feedback", "generate_document"}
          /\ out.gen[c.gen] # "text"
    \/ ~IsCoroutineFunction(c.fn)

\* the try block from call i on: every call made is recorded, the first
\* that raises ends the block
RECURSIVE RunCalls(_, _, _, _)
RunCalls(plan, i, out, trace) ==
    IF i > Len(plan)
    THEN [trace |-> trace, raised |-> FALSE]
    ELSE LET done == Append(trace, Effect(plan[i], out))
         IN  IF Raises(plan[i], out)
             THEN [trace |-> done, raised |-> TRUE]
             ELSE RunCalls(plan, i + 1, out, done)

\* the handler after the body was read: signature, JSON, then the try
\* block, whose every exception is answered 500
Handle(req, out) ==
    LET verified ==
            <<[op |-> "verify", arg |-> "",
               ok |-> VerifyGithubSignature(req.sig)]>>
        parsed ==
            Append(verified, [op |-> "parse", arg |-> "", ok |-> req.json])
    IN  IF ~VerifyGithubSignature(req.sig)
        THEN [trace |-> verified, status |-> 401]
        ELSE IF ~req.json
        THEN [trace |-> parsed, status |-> 400]
        ELSE LET run == RunCalls(Plan(req), 1, out, parsed)
             IN  [trace |-> run.trace,
                  status |-> IF run.raised THEN 500 ELSE 200]

\* a request arrives: the dependency asks the limiter; a denied request is
\* answered 429 with the two queries, an admitted one goes on to the
\* handler, which awaits the body
HookRequest(k, req) ==
    /\ error = "none"
    /\ hook.pc = "idle"
    /\ IF ~Limited(req)
       THEN /\ hook' = [pc |-> "body", key |-> k, req |-> req,
                        admitted |-> FALSE, trace |-> <<>>, status |-> 0]
            /\ UNCHANGED storage
       ELSE LET r == IsAllowed(storage, k, clock)
                queried == GetResetTimeStorage(r.storage, k)
                reset == GetResetTimeResult(r.storage, k, clock)
            IN  IF r.result
                THEN /\ storage' = r.storage
                     /\ hook' = [pc |-> "body", key |-> k, req |-> req,
                                 admitted |-> TRUE, trace |-> <<>>,
                                 status |-> 0]
                ELSE /\ storage' =
                            GetRemainingCallsStorage(queried, k, clock)
                     /\ hook' = [pc |-> "idle", key |-> k, req |-> req,
                                 admitted |-> FALSE, trace |-> <<>>,
                                 status |-> IF FormatSeconds(reset).ok
                                            THEN 429
                                            ELSE 500]
    /\ UNCHANGED <<calls, period, error, lock, clock, th>>

\* the body has arrived: the handler runs to its response
HookHandle(out) ==
    /\ hook.pc = "body"
    /\ LET h == Handle(hook.req, out)
       IN  hook' = [hook EXCEPT !.pc = "idle",
                                !.trace = h.trace,
                                !.status = h.status]
    /\ UNCHANGED <<calls, period, error, storage, lock, clock, th>>

NextHook ==
    \/ Tick /\ UNCHANGED <<last, hist, apps>>
    \/ \E k \in Keys, req \in Requests :
            HookRequest(k, req) /\ UNCHANGED <<last, hist, web, ai>>
    \/ \E out \in Outcomes :
            HookHandle(out) /\ UNCHANGED <<last, hist, web, ai>>

SpecHook == Init /\ [][NextHook]_vars

TypeOK ==
    /\ calls \in CallsArgs
    /\ period \in PeriodArgs
    /\ clock \in Times
    /\ lock \in Threads \cup {NoThread}
    /\ DOMAIN storage \subseteq Keys \cup {AIKey}

\* ---- vocabulary of the properties ---------------------------------------
\* number of occurrences of v in seq
Occ(seq, v) == Cardinality({i \in DOMAIN seq : seq[i] = v})

\* number of timestamps of seq inside the window (now - period, now]
InWindow(seq, now) == Cardinality({i \in DOMAIN seq : seq[i] > now - period})

\* seq without its timestamps t <= now - period, order kept
RECURSIVE DropExpired(_, _)
DropExpired(seq, now) ==
    IF seq = <<>> THEN <<>>
    ELSE IF Head(seq) <= now - period
         THEN DropExpired(Tail(seq), now)
         ELSE <<Head(seq)>> \o DropExpired(Tail(seq), now)

\* number of admitted is_allowed calls of k with call time in (lo, hi]
RECURSIVE AdmittedIn(_, _, _)
AdmittedIn(k, lo, hi) ==
    IF hi <= lo \/ hi < 0 THEN 0
    ELSE (IF hi \in Times THEN admitted[k][hi] ELSE 0)
         + AdmittedIn(k, lo, hi - 1)

NumAdmitted(k) == AdmittedIn(k, 0 - 1, MaxTime)

\* the threads inside an is_allowed call on k
InFlight(k) ==
    {t \in Threads : th[t].op = "is_allowed" /\ th[t].key = k}

\* number of is_allowed calls on k that returned false
Denials(k) == issued[k] - Cardinality(InFlight(k)) - NumAdmitted(k)

\* every admitted call of k is still inside the window that ends now
AllInWindow(k) ==
    \A u \in Times : admitted[k][u] > 0 => u > clock - period

\* ---- C1 -----------------------------------------------------------------
\* C1: capacity bound.  For every key and every instant t, at most `calls`
\* is_allowed calls returned true with a call time in (t - period, t].
C1_CapacityBound ==
    error = "none" =>
        \A k \in Keys, t \in Times : AdmittedIn(k, t - period, t) <= calls

\* ---- C2 -----------------------------------------------------------------
\* C2: when N is_allowed calls were made on a fresh key, all of them have
\* returned and every admitted one is still inside the window, exactly
\* min(N, calls) of them returned true, whatever the interleaving.
C2_ExactlyMinAdmitted ==
    error = "none" =>
        \A k \in Keys :
            (InFlight(k) = {} /\ AllInWindow(k))
                => NumAdmitted(k) = Min(issued[k], calls)

\* three calls on one key of a limiter of two, the third one denied
C2_Witness ==
    \E k \in Keys :
        /\ calls = 2
        /\ issued[k] = 3
        /\ InFlight(k) = {}
        /\ AllInWindow(k)
        /\ NumAdmitted(k) = 2
        /\ Denials(k) = 1

\* ---- C3 -----------------------------------------------------------------
\* C3: is_allowed(key) at time now returns true iff fewer than `calls` stored
\* timestamps of key are > now - period; when it returns true exactly one
\* timestamp equal to now is appended (the last element) and nothing else
\* is added.
C3_AdmitIffBelowQuota ==
    last.op = "is_allowed" =>
        LET before == Lookup(last.pre, last.key)
            after == Lookup(storage, last.key)
        IN  /\ last.result \in BOOLEAN
            /\ last.result <=> (InWindow(before, last.now) < calls)
            /\ last.result =>
                   /\ Len(after) = InWindow(before, last.now) + 1
                   /\ after[Len(after)] = last.now
                   /\ \A v \in Times :
                          Occ(after, v) =
                              (IF v > last.now - period
                               THEN Occ(before, v) ELSE 0)
                              + (IF v = last.now THEN 1 ELSE 0)

\* an admission that found a timestamp in the window and one outside it
C3_Witness ==
    /\ last.op = "is_allowed"
    /\ last.result = TRUE
    /\ Len(Lookup(last.pre, last.key)) = 2
    /\ InWindow(Lookup(last.pre, last.key), last.now) = 1
    /\ Len(Lookup(storage, last.key)) = 2

\* ---- C4 -----------------------------------------------------------------
\* C4: a denied is_allowed(key) returns the ordinary value false and records
\* nothing: the key's sequence is its pre-call sequence without the expired
\* timestamps, and no other key's sequence changes.
C4_DenialRecordsNothing ==
    (last.op = "is_allowed" /\ last.result = FALSE) =>
        /\ Lookup(storage, last.key)
               = DropExpired(Lookup(last.pre, last.key), last.now)
        /\ \A k \in Keys \ {last.key} :
               /\ Lookup(storage, k) = Lookup(last.pre, k)
               /\ k \in DOMAIN storage <=> k \in DOMAIN last.pre

\* a denial at full quota while another key holds a timestamp
C4_Witness ==
    /\ last.op = "is_allowed"
    /\ last.result = FALSE
    /\ Len(Lookup(storage, last.key)) = 2
    /\ \E k \in Keys \ {last.key} : Lookup(storage, k) # <<>>

\* ---- C5 -----------------------------------------------------------------
\* the sequence of last.key as the pruning of the last operation left it
\* (without the timestamp an admission appended after pruning)
PrunedByLast ==
    LET after == Lookup(storage, last.key)
    IN  IF last.op = "is_allowed" /\ last.result = TRUE
        THEN SubSeq(after, 1, Len(after) - 1)
        ELSE after

\* C5: the window is (now - period, now]: pruning at time now removes every
\* timestamp t <= now - period and keeps every t > now - period, so an
\* admission recorded at t0 does not count for a call at t0 + period.
C5_HalfOpenWindow ==
    last.op \in {"is_allowed", "get_remaining_calls"} =>
        LET before == Lookup(last.pre, last.key)
        IN  /\ \A v \in Times :
                   Occ(PrunedByLast, v) =
                       IF v <= last.now - period THEN 0 ELSE Occ(before, v)
            /\ (last.op = "is_allowed"
                   /\ \A i \in DOMAIN before :
                          before[i] + period <= last.now)
                   => last.result = TRUE

\* a full key whose timestamps are exactly `period` old is admitted again
C5_Witness ==
    /\ last.op = "is_allowed"
    /\ last.result = TRUE
    /\ Len(Lookup(last.pre, last.key)) = calls
    /\ \A i \in DOMAIN Lookup(last.pre, last.key) :
           Lookup(last.pre, last.key)[i] + period = last.now
    /\ Lookup(storage, last.key) = <<last.now>>

\* ---- C6 -----------------------------------------------------------------
\* C6: key independence.  An operation on key A changes neither the stored
\* sequence of any other key B nor the result is_allowed,
\* get_remaining_calls or get_reset_time would give for B at any time.
C6_KeyIndependence ==
    last.op # "none" =>
        \A k \in Keys \ {last.key} :
            /\ Lookup(storage, k) = Lookup(last.pre, k)
            /\ \A n \in Times :
                   /\ IsAllowedResult(storage, k, n)
                          = IsAllowedResult(last.pre, k, n)
                   /\ GetRemainingCallsResult(storage, k, n)
                          = GetRemainingCallsResult(last.pre, k, n)
                   /\ GetResetTimeResult(storage, k, n)
                          = GetResetTimeResult(last.pre, k, n)

\* key A is exhausted by a denial while key B still has quota and a
\* timestamp that the time of the operation on A would have expired
C6_Witness ==
    /\ last.op = "is_allowed"
    /\ last.result = FALSE
    /\ \E k \in Keys \ {last.key} :
           /\ Lookup(storage, k) # <<>>
           /\ InWindow(Lookup(storage, k), last.now) < Len(Lookup(storage, k))
           /\ IsAllowedResult(storage, k, last.now)

\* ---- C7 -----------------------------------------------------------------
\* C7: remaining-quota consistency.  After k admitted is_allowed calls on a
\* fresh key, all still inside the window, get_remaining_calls(key) returns
\* calls - k; after a denial at full quota it returns 0.
C7_RemainingConsistency ==
    (last.op = "get_remaining_calls" /\ AllInWindow(last.key)) =>
        /\ last.result = calls - NumAdmitted(last.key)
        /\ Denials(last.key) > 0 => last.result = 0

\* two admissions and a denial on a limiter of two, then the query
C7_Witness ==
    /\ last.op = "get_remaining_calls"
    /\ AllInWindow(last.key)
    /\ calls = 2
    /\ NumAdmitted(last.key) = 2
    /\ Denials(last.key) = 1
    /\ last.result = 0

\* ---- C8 -----------------------------------------------------------------
\* C8: get_remaining_calls(key) never consumes quota: its result is in
\* 0..calls, it appends nothing and only removes the expired timestamps, so
\* an is_allowed(key) that follows at the same or a later time has the
\* outcome it would have had without the query.
C8_QueryConsumesNothing ==
    last.op = "get_remaining_calls" =>
        LET before == Lookup(last.pre, last.key)
        IN  /\ last.result \in 0..calls
            /\ Lookup(storage, last.key) = DropExpired(before, last.now)
            /\ \A n \in Times :
                   n >= last.now =>
                       /\ IsAllowedResult(storage, last.key, n)
                              = IsAllowedResult(last.pre, last.key, n)
                       /\ IsAllowedStorage(storage, last.key, n)
                              = IsAllowedStorage(last.pre, last.key, n)

\* a query on a full key, one of whose timestamps it pruned
C8_Witness ==
    /\ last.op = "get_remaining_calls"
    /\ Len(Lookup(last.pre, last.key)) = 2
    /\ Len(Lookup(storage, last.key)) = 1
    /\ last.result = 1

\* ---- C9 -----------------------------------------------------------------
\* C9: get_reset_time(key) prunes before computing: its result is never
\* derived from a timestamp t <= now - period, and when every stored
\* timestamp of the key has expired it returns None.
C9_ResetTimePrunesFirst ==
    last.op = "get_reset_time" =>
        LET before == Lookup(last.pre, last.key)
        IN  /\ InWindow(before, last.now) = 0 => last.result = None
            /\ last.result # None =>
                   \E i \in DOMAIN before :
                       /\ before[i] > last.now - period
                       /\ last.result
                              = Some(Max(0, before[i] + period - last.now))

\* ---- C10 ----------------------------------------------------------------
\* C10: for a key with a timestamp inside the window, get_reset_time(key) at
\* time now returns max(0, oldest + period - now), oldest being the smallest
\* surviving timestamp; the result lies in [0, period], and right after a
\* denial at full quota it is strictly positive.
C10_ResetTimeValue ==
    /\ (last.op = "get_reset_time"
           /\ InWindow(Lookup(last.pre, last.key), last.now) > 0) =>
          LET oldest ==
                  SeqMin(DropExpired(Lookup(last.pre, last.key), last.now))
          IN  /\ last.result = Some(Max(0, oldest + period - last.now))
              /\ last.result[1] \in 0..period
    /\ \A t \in Threads :
          (/\ th[t].pc = "locked"
           /\ th[t].op = "get_reset_time"
           /\ last.op = "is_allowed"
           /\ last.result = FALSE
           /\ last.key = th[t].key
           /\ last.now = clock) =>
              /\ GetResetTimeResult(storage, th[t].key, clock) # None
              /\ GetResetTimeResult(storage, th[t].key, clock)[1] > 0

\* ---- C11 ----------------------------------------------------------------
\* C11: for a key on which no is_allowed call was ever admitted,
\* get_reset_time(key) returns None, whatever was called on other keys and
\* whatever was queried on this key before.
C11_ResetTimeAbsent ==
    (last.op = "get_reset_time" /\ NumAdmitted(last.key) = 0) =>
        last.result = None

\* the key was queried and denied nothing, another key holds admissions
C11_Witness ==
    /\ last.op = "get_reset_time"
    /\ NumAdmitted(last.key) = 0
    /\ last.key \in DOMAIN last.pre
    /\ \E k \in Keys \ {last.key} :
           NumAdmitted(k) > 0 /\ Lookup(storage, k) # <<>>
    /\ last.result = None

\* ---- C12 ----------------------------------------------------------------
\* what construction leaves: an error exactly for an argument below 1, and
\* then a limiter nobody can use
ConstructionValidated ==
    /\ error = "ValueError" <=> (calls <= 0 \/ period <= 0)
    /\ error = "none" <=> (calls > 0 /\ period > 0)
    /\ error = "ValueError" =>
           /\ storage = <<>>
           /\ last = NoOp
           /\ \A t \in Threads : th[t] = Idle

\* C12: RateLimiter(calls, period) fails with ValueError whenever calls <= 0
\* or period <= 0, leaving no usable limiter, succeeds whenever both are
\* greater than zero, and calls and period never change afterwards.
C12_ConstructionValidation ==
    /\ []ConstructionValidated
    /\ [][calls' = calls /\ period' = period]_vars

\* the limiter of one call per second was constructed and has admitted
C12_Witness ==
    /\ calls = 1
    /\ period = 1
    /\ error = "none"
    /\ last.op = "is_allowed"
    /\ last.result = TRUE

\* ---- C13 ----------------------------------------------------------------
\* number of timestamps of seq that have aged out of the window at time n
AgedOut(seq, n) == Cardinality({i \in DOMAIN seq : seq[i] + period <= n})

\* the capacity as a function of the time: what get_remaining_calls answered
\* at last.now, plus one for each recorded admission aged out by n
RecoveryFromLast ==
    last.op = "get_remaining_calls" =>
        \A n \in Times :
            n >= last.now =>
                GetRemainingCallsResult(storage, last.key, n)
                    = last.result + AgedOut(Lookup(storage, last.key), n)

\* two queries of the same key with no operation completed between them:
\* the second answers the first's capacity plus the admissions aged out
RecoveryBetweenQueries ==
    (/\ last.op = "get_remaining_calls"
     /\ last'.op = "get_remaining_calls"
     /\ last' # last
     /\ last'.key = last.key
     /\ last'.now >= last.now)
        => last'.result
               = last.result + AgedOut(Lookup(storage, last.key), last'.now)

\* C13: monotonic recovery.  With no new admission on a key, the capacity
\* reported by get_remaining_calls rises by exactly one for each recorded
\* admission that has aged out of the window: after j of them have aged out
\* it is exactly j higher than before, never more and never less.
C13_MonotonicRecovery ==
    /\ []RecoveryFromLast
    /\ [][RecoveryBetweenQueries]_vars

\* a full key of two was queried, and later one of its admissions has aged
\* out while the other has not
C13_Witness ==
    /\ last.op = "get_remaining_calls"
    /\ last.result = 0
    /\ Len(Lookup(storage, last.key)) = 2
    /\ \E n \in Times :
           /\ clock = n
           /\ n > last.now
           /\ AgedOut(Lookup(storage, last.key), n) = 1
           /\ GetRemainingCallsResult(storage, last.key, n) = 1

\* ---- C14 ----------------------------------------------------------------
\* C14: every public operation runs entirely under the guard, the reading
\* of the time included: the time an operation uses is never older than
\* the time used by an operation that completed before it took the guard.
C14_TimeReadUnderGuard ==
    \A t \in Threads :
        (th[t].pc = "locked" /\ th[t].now # NoTime /\ last.op # "none")
            => th[t].now >= last.now

\* ---- C15 ----------------------------------------------------------------
\* C15: every key's stored sequence is non-decreasing in insertion order.
C15_TimestampsNonDecreasing ==
    \A k \in DOMAIN storage :
        \A i, j \in DOMAIN storage[k] :
            i < j => storage[k][i] <= storage[k][j]

\* ---- C19 ----------------------------------------------------------------
\* C19: keys are never evicted.  No step of is_allowed, get_remaining_calls
\* or get_reset_time removes a key that has an entry in the store; only its
\* timestamps are pruned, possibly down to an empty sequence that stays.
C19_KeysNeverEvicted ==
    [][DOMAIN storage \subseteq DOMAIN storage']_vars

\* get_remaining_calls pruned a key down to the empty sequence, which stays
\* in the store beside another key's entry
C19_Witness ==
    /\ last.op = "get_remaining_calls"
    /\ last.key \in DOMAIN last.pre
    /\ last.pre[last.key] # <<>>
    /\ last.key \in DOMAIN storage
    /\ storage[last.key] = <<>>
    /\ \E k \in (DOMAIN storage) \ {last.key} : storage[k] # <<>>

\* ---- C20 ----------------------------------------------------------------
\* the lock is held exactly by the thread that is inside the block
GuardHeldInsideOnly ==
    /\ \A t \in Threads : th[t].pc = "locked" <=> lock = t
    /\ lock # NoThread => lock \in Threads

\* whenever a caller is inside an operation, some caller can take a step
NoDeadlock ==
    (\E t \in Threads : th[t].pc # "idle") =>
        \E t \in Threads : ENABLED (Enters(t) \/ Returns(t))

\* C20: every limiter operation terminates and releases the guard on every
\* path: the guard is never left held by a caller that has returned, no
\* reachable state is a deadlock, and under fair scheduling every caller
\* that started an operation eventually returns.
C20_OperationsTerminate ==
    /\ []GuardHeldInsideOnly
    /\ []NoDeadlock
    /\ \A t \in Threads : (th[t].pc # "idle") ~> (th[t].pc = "idle")

\* get_reset_time is about to return early on a key without timestamps,
\* holding the lock the other caller waits for
C20_Witness ==
    \E t, u \in Threads :
        /\ th[t].pc = "locked"
        /\ th[t].op = "get_reset_time"
        /\ Lookup(storage, th[t].key) = <<>>
        /\ lock = t
        /\ th[u].pc = "acquire"

\* ---- C16 ----------------------------------------------------------------
\* C16: whenever the inbound limiter denies a request, the dependency
\* answers 429 with the reset time of get_reset_time and the remaining quota
\* of get_remaining_calls for that key, however the clock advances between
\* the denial and the two queries; it never fails with another error.
C16_DenialAnswers429 ==
    /\ web.resp.status \in {0, 200, 429}
    /\ web.pc = "reset" => Lookup(storage, web.key) # <<>>
    /\ web.pc = "remaining" =>
           /\ web.reset # None
           /\ web.reset[1] \in 0..(10 * period)
    /\ web.resp.status = 429 =>
           /\ web.resp.reset_in # None
           /\ web.resp.reset_in[1] \in 0..(10 * period)
           /\ web.resp.remaining # None
           /\ web.resp.remaining[1] \in 0..calls
           /\ web.resp.remaining[1]
                  = calls - Len(Lookup(storage, web.key))

\* a denied request whose timestamps had all expired by the time the two
\* queries ran: 429 with nothing left to wait for and the whole quota back
C16_Witness ==
    /\ web.resp.status = 429
    /\ web.resp.reset_in = Some(0)
    /\ web.resp.remaining = Some(calls)
    /\ \E k \in Keys \ {web.key} : Lookup(storage, k) # <<>>

\* ---- C17 ----------------------------------------------------------------
\* outbound posts issued at the times lo .. lo + period - 1
PostsFrom(lo) ==
    Cardinality({i \in DOMAIN ai.posts :
                    lo <= ai.posts[i] /\ ai.posts[i] < lo + period})

\* C17: aggregate AI cap.  An outbound request is posted only after
\* is_allowed("ai_service") returned true for it, on the one fixed key, so
\* over generate_pr_feedback and generate_document together at most `calls`
\* requests are posted in any window of `period`, and a denied attempt
\* posts nothing.
C17_AggregateAICap ==
    /\ ai.posted => (ai.asked /\ ai.admitted)
    /\ DOMAIN storage \subseteq {AIKey}
    /\ error = "none" => \A lo \in Times : PostsFrom(lo) <= calls
    /\ Len(SelectSeq(ai.posts, LAMBDA ts : ts > clock - period))
           <= Len(Lookup(storage, AIKey))

\* generate_document is denied after the quota of two was used up by posts
\* in the current window, with an older post already out of it
C17_Witness ==
    /\ calls = 2
    /\ ai.caller = "generate_document"
    /\ ai.asked
    /\ ~ai.admitted
    /\ ~ai.posted
    /\ Len(ai.posts) = 3
    /\ PostsFrom(clock) = 2

\* ---- C18 ----------------------------------------------------------------
\* C18: when the AI limiter denies a call, the exception that leaves
\* _make_ai_request has status 429.
C18_DenialSurfaces429 ==
    (ai.asked /\ ~ai.admitted) => ai.status = 429

\* ---- C24 ----------------------------------------------------------------
\* get_reset_time answered d at time last.now for a key at full quota:
\* is_allowed is denied at every time before last.now + d and admitted at
\* last.now + d
ResetTimeExactFromLast ==
    (/\ last.op = "get_reset_time"
     /\ last.result # None
     /\ Len(Lookup(storage, last.key)) = calls)
        => LET d == last.result[1]
           IN  /\ \A u \in last.now..(last.now + d - 1) :
                      ~IsAllowedResult(storage, last.key, u)
               /\ IsAllowedResult(storage, last.key, last.now + d)

\* get_reset_time on a key at full quota, then is_allowed on that key with
\* no operation completed between them and a time that is not older: it is
\* admitted exactly when its time has reached last.now + d
ResetTimeExactNextCall ==
    (/\ last.op = "get_reset_time"
     /\ last.result # None
     /\ Len(Lookup(storage, last.key)) = calls
     /\ last'.op = "is_allowed"
     /\ last'.key = last.key
     /\ last'.now >= last.now)
        => (last'.result <=> last'.now >= last.now + last.result[1])

\* C24: the reset time is exact.  If get_reset_time(key) returns d at time t
\* for a key at full quota and no admission on the key happens in between,
\* is_allowed(key) is denied at every time strictly before t + d and is
\* admitted at time t + d.
C24_ResetTimeExact ==
    /\ []ResetTimeExactFromLast
    /\ [][ResetTimeExactNextCall]_vars

\* RateLimiter(1, 1) after its one admission: a second to wait, denied now
\* and admitted once the window has slid past the entry
C24_Witness ==
    /\ calls = 1
    /\ period = 1
    /\ last.op = "get_reset_time"
    /\ last.result = Some(1)
    /\ Len(Lookup(storage, last.key)) = 1
    /\ ~IsAllowedResult(storage, last.key, last.now)
    /\ IsAllowedResult(storage, last.key, last.now + 1)

\* ---- C25 ----------------------------------------------------------------
\* C25: in every reachable state every key's stored sequence holds at most
\* `calls` timestamps, whatever the interleaving and however the clock
\* advances.
C25_StoredAtMostCalls ==
    error = "none" =>
        \A k \in DOMAIN storage : Len(storage[k]) <= calls

\* a key filled to its quota of two by interleaved callers, the later
\* timestamp appended first, while a third caller waits for the lock
C25_Witness ==
    /\ calls = 2
    /\ \E k \in DOMAIN storage :
           /\ Len(storage[k]) = 2
           /\ storage[k][1] > storage[k][2]
           /\ \E t \in Threads :
                  /\ th[t].pc = "acquire"
                  /\ th[t].op = "is_allowed"
                  /\ th[t].key = k

\* ---- C28 ----------------------------------------------------------------
\* a step of generate_document: too long content raises ContentTooLargeError
\* and leaves the limiter and the posts alone, content within the limit
\* makes the one is_allowed("ai_service") check
DocumentStep ==
    (/\ ai'.caller = "generate_document"
     /\ <<ai, storage>>' # <<ai, storage>>)
        => IF ai'.content > MAX_DIFF_LENGTH
           THEN /\ ai'.raised = "ContentTooLargeError"
                /\ ~ai'.asked
                /\ storage' = storage
                /\ ai'.posts = ai.posts
           ELSE /\ ai'.raised # "ContentTooLargeError"
                /\ ai'.asked
                /\ storage' = IsAllowedStorage(storage, AIKey, clock)
                /\ Len(ai'.posts) <= Len(ai.posts) + 1

\* ContentTooLargeError is what generate_document raised last exactly when
\* its content was longer than MAX_DIFF_LENGTH
TooLargeRaised ==
    ai.raised = "ContentTooLargeError" <=>
        (ai.caller = "generate_document" /\ ai.content > MAX_DIFF_LENGTH)

\* C28: generate_document with content longer than MAX_DIFF_LENGTH raises
\* ContentTooLargeError before the AI limiter is consulted: no timestamp is
\* recorded under "ai_service" and no outbound request is issued; for
\* content within the limit exactly one is_allowed check is made per call.
C28_TooLargeBeforeLimiter ==
    /\ []TooLargeRaised
    /\ [][DocumentStep]_vars

\* content of 8001 characters was refused while the limiter, which had
\* admitted one request before, still had quota left
C28_Witness ==
    /\ ai.caller = "generate_document"
    /\ ai.content = MAX_DIFF_LENGTH + 1
    /\ ai.raised = "ContentTooLargeError"
    /\ ~ai.asked
    /\ Len(ai.posts) = 1
    /\ Len(Lookup(storage, AIKey)) = 1
    /\ calls = 2

\* ---- the webhooks: vocabulary --------------------------------------------
\* the webhook was answered
Answered == hook.pc = "idle" /\ hook.status # 0

\* the places of the operation op in what the webhook did
Ops(op) == {i \in DOMAIN hook.trace : hook.trace[i].op = op}

\* the webhook made no Jira transition, no AI call and no GitHub call
NoServiceCalled ==
    \A i \in DOMAIN hook.trace : hook.trace[i].op \in {"verify", "parse"}

\* the text holds a Jira identifier: an upper-case letter, a hyphen and a
\* digit in a row
HasJiraId(text) ==
    \E i \in DOMAIN text :
        /\ i + 2 <= Len(text)
        /\ text[i] = "A"
        /\ text[i + 1] = "-"
        /\ text[i + 2] = "0"

\* ---- C21 ----------------------------------------------------------------
\* C21: an admitted POST /github/webhook whose X-Hub-Signature-256 header is
\* missing or does not verify is answered 401 and causes no Jira
\* transition, no AI call and no GitHub comment.
C21_BadSignature401 ==
    (Answered /\ hook.admitted /\ hook.req.sig # "valid") =>
        /\ hook.status = 401
        /\ NoServiceCalled

\* the request of the test: a branch creation naming an issue, with a
\* wrong signature, answered 401 after the signature check alone
C21_Witness ==
    /\ Answered
    /\ hook.admitted
    /\ hook.req.sig = "invalid"
    /\ hook.req.event = "create"
    /\ hook.req.ref_type = "branch"
    /\ HasJiraId(hook.req.text)
    /\ hook.status = 401
    /\ Len(hook.trace) = 1
    /\ hook.trace[1].op = "verify"

\* ---- C22 ----------------------------------------------------------------
\* C22: every validly signed, admitted webhook with event "create" and
\* ref_type "branch" is answered 200, also when the branch name holds a
\* Jira identifier and the transition to "In Progress" is requested.
C22_BranchCreate200 ==
    (/\ Answered
     /\ hook.admitted
     /\ hook.req.sig = "valid"
     /\ hook.req.json
     /\ hook.req.event = "create"
     /\ hook.req.ref_type = "branch")
        => hook.status = 200

\* ---- C23 ----------------------------------------------------------------
\* C23: a Jira transition is a two-step protocol: the available transitions
\* are fetched first, then the id of the one whose target is the requested
\* state is posted; a posted transition is always preceded by the fetch.
C23_FetchThenPost ==
    \A i \in Ops("jira_post") : \E j \in Ops("jira_get") : j < i

\* ---- C26 ----------------------------------------------------------------
\* the state the webhook asks Jira for, None when it asks for none
Transition(req) ==
    IF ~HasJiraId(req.text)
    THEN None
    ELSE IF req.event = "create" /\ req.ref_type = "branch"
    THEN Some("In Progress")
    ELSE IF req.event = "pull_request" /\ req.action = "opened"
    THEN Some("In Review")
    ELSE IF req.event = "pull_request" /\ req.action = "closed"
                                       /\ req.merged
    THEN Some("Completed")
    ELSE None

\* C26: a webhook requests at most one Jira transition, and only for a
\* branch creation ("In Progress"), an opened pull request ("In Review") or
\* a merged one ("Completed") that names a Jira issue; every other signed
\* webhook causes no Jira transition, no AI call and no GitHub comment and
\* is answered 200.
C26_EventToTransition ==
    /\ Cardinality(Ops("jira_post")) <= 1
    /\ (Answered /\ hook.admitted /\ hook.req.sig = "valid" /\ hook.req.json)
           => IF Transition(hook.req) = None
              THEN NoServiceCalled /\ hook.status = 200
              ELSE \E i \in Ops("jira_post") :
                      Some(hook.trace[i].arg) = Transition(hook.req)

\* a merged pull request whose title names an issue after other text asked
\* for "Completed", once
C26_Witness ==
    /\ Answered
    /\ hook.req.event = "pull_request"
    /\ hook.req.action = "closed"
    /\ hook.req.merged
    /\ Len(hook.req.text) > 3
    /\ Ops("jira_post") = {3}
    /\ hook.trace[3].arg = "Completed"

\* ---- C27 ----------------------------------------------------------------
\* the generations a webhook needs: one for an opened pull request, two for
\* a merged one
Generations(req) ==
    IF Transition(req) = Some("In Review") THEN 1
    ELSE IF Transition(req) = Some("Completed") THEN 2
    ELSE 0

\* C27: within one webhook the steps are ordered Jira transition, AI
\* generation, GitHub comment: a pull request webhook whose Jira transition
\* was accepted goes on to its AI generations; a comment is posted only
\* after all of them succeeded; if one is denied or fails no comment is
\* posted and the response is an error.
C27_JiraThenAIThenComment ==
    Answered =>
        /\ \A i \in Ops("jira_post") :
               (hook.trace[i].ok /\ Generations(hook.req) > 0)
                   => \E j \in Ops("ai") : i < j
        /\ \A c \in Ops("github_comment") :
               /\ Cardinality({j \in Ops("ai") : j < c /\ hook.trace[j].ok})
                      = Generations(hook.req)
               /\ \E i \in Ops("jira_post") : i < c
        /\ (\E j \in Ops("ai") : ~hook.trace[j].ok)
               => Ops("github_comment") = {} /\ hook.status = 500

\* ---- C29 ----------------------------------------------------------------
\* the dependency let the request through to the handler: the limiter
\* admitted it and recorded the time under the client address
AdmissionStep ==
    (hook.pc = "idle" /\ hook'.pc = "body") =>
        /\ hook'.admitted
        /\ hook'.trace = <<>>
        /\ Lookup(storage', hook'.key)
               = Append(Survivors(Lookup(storage, hook'.key), clock), clock)

\* the dependency answered the request itself: it was denied with the quota
\* of its address used up, nothing was recorded and nothing done for it
DenialStep ==
    (hook.pc = "idle" /\ hook'.pc = "idle" /\ hook' # hook) =>
        /\ ~hook'.admitted
        /\ hook'.status = 429
        /\ hook'.trace = <<>>
        /\ Len(Survivors(Lookup(storage, hook'.key), clock)) >= calls
        /\ Lookup(storage', hook'.key)
               = Survivors(Lookup(storage, hook'.key), clock)

\* whatever the handler did, it did for an admitted request, the signature
\* check first
HandledOnlyAdmitted ==
    /\ hook.pc = "body" => hook.admitted
    /\ hook.status \in {200, 400, 401, 500} => hook.admitted
    /\ hook.trace # <<>> => hook.admitted /\ hook.trace[1].op = "verify"
    /\ hook.status = 429 => ~hook.admitted /\ hook.trace = <<>>

\* C29: inbound admission is decided before signature verification and
\* before any processing: every POST /github/webhook, also one with a bad
\* signature or a body that is no JSON, consumes one slot of its client
\* address when admitted, and a denied request is never signature-checked
\* or parsed and causes no Jira, AI or GitHub call.
C29_AdmissionFirst ==
    /\ []HandledOnlyAdmitted
    /\ [][AdmissionStep /\ DenialStep]_vars

\* a request whose body was no JSON was answered 400 and holds the second
\* slot of its address, whose quota is now used up
C29_Witness ==
    /\ Answered
    /\ hook.status = 400
    /\ hook.admitted
    /\ calls = 2
    /\ Len(Lookup(storage, hook.key)) = 2
====
